---- MODULE Spec2Model ----
(***************************************************************************)
(* Model of the book-catalogue ETL pipeline (code/main.py): the retrying   *)
(* HTTP fetch helper get_response, the link and record extractors, the     *)
(* cleaner, the loader and the driver.                                     *)
(*                                                                         *)
(* Encoding conventions                                                    *)
(*   - an optional value is a sequence of length 0 (None) or 1 (Some(x));  *)
(*   - a text that the code parses is a sequence of one-character strings; *)
(*   - a URL or path is a sequence of segments, a segment is the sequence  *)
(*     of its "_"-separated parts;                                         *)
(*   - a call's outcome is [kind, value, exc]: kind "return" with value,   *)
(*     or kind "raise" with the exception's name in exc.                   *)
(***************************************************************************)
EXTENDS Integers, Sequences, FiniteSets, TLC

\* ------------------------------------------------------------------ bounds
MaxLinks == 2      \* elements on a category listing page
MaxBatch == 2      \* records of a batch handed to clean_data / load_data
MaxRuns == 2       \* invocations of the program against the same sink

\* --------------------------------------------------------------- encodings
None == <<>>
Some(x) == <<x>>
NoException == ""

Return(v) == [kind |-> "return", value |-> v, exc |-> NoException, parsed |-> FALSE]
Raise(e) == [kind |-> "raise", value |-> None, exc |-> e, parsed |-> FALSE]
Continue == [kind |-> "continue", value |-> None, exc |-> NoException, parsed |-> FALSE]

RECURSIVE Flatten(_)
Flatten(ss) == IF ss = <<>> THEN <<>> ELSE Head(ss) \o Flatten(Tail(ss))

\* ---------------------------------------------------------- get_response
n_attempts == 5

\* The module imports os, re, sys, requests, numpy, pandas, bs4, sqlalchemy:
\* the name `time` used by the 429 branch is bound nowhere.
time_imported == FALSE

ConnectTimeout == "ConnectTimeout"
ErrorStatuses == {404, 503}
EmptyBody == <<>>

\* What one requests.get(url) can do: raise ConnectTimeout, or answer a
\* response with a status code and a body (bodies: the pages a 200 may carry).
Responses(bodies) ==
    [kind : {"response"}, status_code : {200}, text : bodies]
    \cup [kind : {"response"}, status_code : {429} \cup ErrorStatuses, text : {EmptyBody}]
Answers(bodies) ==
    Responses(bodies)
    \cup [kind : {ConnectTimeout}, status_code : {0}, text : {EmptyBody}]

\* get_response_attempt without the retry of the other statuses.
get_response_attempt_no_retry(attempt, answer) ==
    IF answer.kind = ConnectTimeout THEN Continue
    ELSE IF answer.status_code = 200
    THEN Return(<<Some(answer), Some(answer.status_code)>>)
    ELSE IF answer.status_code = 429
    THEN IF time_imported THEN Continue ELSE Raise("NameError")
    ELSE Return(<<Some(answer), Some(answer.status_code)>>)

\* get_response_attempt that takes a 200 for good only on the last attempt.
get_response_attempt_late_200(attempt, answer) ==
    IF answer.kind = ConnectTimeout THEN Continue
    ELSE IF answer.status_code = 429
    THEN IF time_imported THEN Continue ELSE Raise("NameError")
    ELSE IF attempt < n_attempts THEN Continue
    ELSE Return(<<Some(answer), Some(answer.status_code)>>)

\* get_response_attempt without the return of the last attempt's response.
get_response_attempt_drop_last(attempt, answer) ==
    IF answer.kind = ConnectTimeout THEN Continue
    ELSE IF answer.status_code = 200
    THEN Return(<<Some(answer), Some(answer.status_code)>>)
    ELSE IF answer.status_code = 429
    THEN IF time_imported THEN Continue ELSE Raise("NameError")
    ELSE Continue

\* One iteration of the for loop, for attempt number `attempt` and the answer
\* of its requests.get: Continue, or the call's outcome.
get_response_attempt(attempt, answer) ==
    IF answer.kind = ConnectTimeout THEN Continue
    ELSE IF answer.status_code = 200
    THEN Return(<<Some(answer), Some(answer.status_code)>>)
    ELSE IF answer.status_code = 429
    THEN IF time_imported THEN Continue ELSE Raise("NameError")
    ELSE IF attempt < n_attempts THEN Continue
    ELSE Return(<<Some(answer), Some(answer.status_code)>>)

\* The statement after the loop.
get_response_exhausted == Return(<<None, None>>)

\* Every outcome a call of get_response can have, from attempt `attempt` on.
RECURSIVE get_response_from(_, _)
get_response_from(attempt, bodies) ==
    IF attempt > n_attempts THEN {get_response_exhausted}
    ELSE LET steps == {get_response_attempt(attempt, a) : a \in Answers(bodies)}
         IN  {r \in steps : r.kind # "continue"}
             \cup (IF \E r \in steps : r.kind = "continue"
                   THEN get_response_from(attempt + 1, bodies) ELSE {})

get_response(bodies) == get_response_from(1, bodies)

\* ---------------------------------------------------------- fetch_titles
BookNames == <<"sapiens", "origin", "cosmos", "walden">>
Parent == <<"..">>
IndexHtml == <<"index.html">>
base_url == << <<"http://books.toscrape.com">>, <<"catalogue">> >>

\* The directory <book_title>_<book_id> of the i-th book of a listing.
BookAt(i) == <<BookNames[((i - 1) % Len(BookNames)) + 1], "id">>
Href(book) == <<Parent, Parent, Parent, book, IndexHtml>>

\* The i-th element of a listing page: whether it carries a title attribute,
\* and its href attribute if it has one. A book's link carries both; other
\* elements may lack either.
TagKinds == {"book", "untitled", "no_href"}
TagAt(i, kind) ==
    [title |-> kind # "untitled",
     href |-> IF kind = "book" THEN Some(Href(BookAt(i))) ELSE None]

ListingPages ==
    UNION {{[i \in 1..n |-> TagAt(i, kinds[i])] : kinds \in [1..n -> TagKinds]} :
           n \in 0..MaxLinks}

\* href.rsplit("../")[-1]: what follows the last "../" of the path.
after_last_parent(href) ==
    LET ups == {i \in 1..Len(href) : href[i] = Parent}
        last == IF ups = {} THEN 0 ELSE CHOOSE i \in ups : \A j \in ups : j <= i
    IN  SubSeq(href, last + 1, Len(href))

\* os.path.join(base_url, page)
path_join(base, page) == base \o page

\* fetch_titles_body with the test on the response instead of on the status.
fetch_titles_body_any_response(value) ==
    LET response == value[1]
    IN  IF response # None
        THEN LET tags == SelectSeq(response[1].text, LAMBDA t : t.title)
             IN  IF \E i \in 1..Len(tags) : tags[i].href = None
                 THEN [Raise("KeyError") EXCEPT !.parsed = TRUE]
                 ELSE [Return([i \in 1..Len(tags) |->
                                  path_join(base_url, after_last_parent(tags[i].href[1]))])
                          EXCEPT !.parsed = TRUE]
        ELSE Return(<<>>)

\* The body of fetch_titles after its call of get_response returned `value`;
\* parsed: whether the response body was handed to the HTML parser.
fetch_titles_body(value) ==
    LET response == value[1]
        status_code == value[2]
    IN  IF status_code = Some(200)
        THEN LET tags == SelectSeq(response[1].text, LAMBDA t : t.title)
             IN  IF \E i \in 1..Len(tags) : tags[i].href = None
                 THEN [Raise("KeyError") EXCEPT !.parsed = TRUE]
                 ELSE [Return([i \in 1..Len(tags) |->
                                  path_join(base_url, after_last_parent(tags[i].href[1]))])
                          EXCEPT !.parsed = TRUE]
        ELSE Return(<<>>)

\* fetch_titles(url), given the outcome of its get_response call.
fetch_titles(got) == IF got.kind = "raise" THEN got ELSE fetch_titles_body(got.value)

\* ------------------------------------------------------ fetch_title_info
NaN == <<"NaN">>

fields == <<"UPC", "Product Type", "Price (excl. tax)", "Price (incl. tax)", "Tax",
            "Availability", "Number of reviews">>
raw_columns == <<"Title">> \o fields \o <<"Product Description">>

\* Texts of the table cells of an item page.
Pounds51_77 == <<"P", "5", "1", ".", "7", "7">>
Pounds51 == <<"P", "5", "1">>
Pounds0_00 == <<"P", "0", ".", "0", "0">>
Pounds0 == <<"P", "0">>
InStock19 == <<"I", "n", " ", "(", "1", "9", " ", "a", "v", ")">>
OutOfStock == <<"O", "u", "t">>
Reviews0 == <<"0">>
ReviewsNA == <<"n", "/", "a">>

\* The td cells of an item page, in document order.
Tds(excl, incl, tax, availability, reviews) ==
    <<"a897fe39b1053632", "Books", excl, incl, tax, availability, reviews>>
GoodTds == Tds(Pounds51_77, Pounds51_77, Pounds0_00, InStock19, Reviews0)
BadPriceTds == Tds(Pounds51_77, Pounds51, Pounds0_00, InStock19, Reviews0)

\* An item page: the text after the product_description marker, if the page
\* has one, and its td cells.
Page(description, tds) == [description |-> description, tds |-> tds]
Description == Some("It is a book.")

\* The bodies an item page answering 200 carries in a run of the driver.
ItemPages == {Page(Description, GoodTds), Page(Description, BadPriceTds), Page(None, GoodTds)}

\* dict(zip(fields, product_info)) laid out on the frame's columns: a field
\* with no cell is NaN, cells beyond the field list are dropped.
zip_fields(tds) ==
    [c \in {fields[i] : i \in 1..Len(fields)} |->
        LET i == CHOOSE j \in 1..Len(fields) : fields[j] = c
        IN  IF i <= Len(tds) THEN tds[i] ELSE NaN]

\* url.split("/")[-2].split("_")[0]
title_of(url) == url[Len(url) - 1][1]

\* The body of fetch_title_info after its call of get_response returned
\* `value`: a frame is the sequence of its rows.
fetch_title_info_body(url, value) ==
    LET response == value[1]
        status_code == value[2]
    IN  IF status_code = Some(200)
        THEN LET page == response[1].text
                 data == zip_fields(page.tds)
             IN  IF page.description = None
                 THEN Raise("IndexError")
                 ELSE Return(<<[c \in {raw_columns[i] : i \in 1..Len(raw_columns)} |->
                                  IF c = "Title" THEN title_of(url)
                                  ELSE IF c = "Product Description" THEN page.description[1]
                                  ELSE data[c]]>>)
        ELSE Return(<<>>)

fetch_title_info(url, got) ==
    IF got.kind = "raise" THEN got ELSE fetch_title_info_body(url, got.value)

\* concat that takes an empty list for an empty frame.
concat_empty_ok(frames) == Return(Flatten(frames))

\* pd.concat(frames)
concat(frames) ==
    IF frames = <<>> THEN Raise("ValueError") ELSE Return(Flatten(frames))

\* ------------------------------------------------------------- clean_data
DigitChars == <<"0", "1", "2", "3", "4", "5", "6", "7", "8", "9">>
IsDigit(c) == \E i \in 1..Len(DigitChars) : DigitChars[i] = c
DigitValue(c) == (CHOOSE i \in 1..Len(DigitChars) : DigitChars[i] = c) - 1

\* Last index of the run of digits that starts at text[i].
RunEnd(text, i) ==
    CHOOSE e \in i..Len(text) :
        /\ \A k \in i..e : IsDigit(text[k])
        /\ e = Len(text) \/ ~IsDigit(text[e + 1])

Decimal == "\\d+\\.\\d+"
Integer == "\\d+"

\* Last index of the match of `pattern` that starts at text[i], 0 if none.
match_end(pattern, text, i) ==
    IF ~IsDigit(text[i]) THEN 0
    ELSE LET e == RunEnd(text, i)
         IN  IF pattern = Integer THEN e
             ELSE IF e + 2 <= Len(text) /\ text[e + 1] = "." /\ IsDigit(text[e + 2])
             THEN RunEnd(text, e + 2)
             ELSE 0

\* re.findall(pattern, text): the non-overlapping matches, left to right.
RECURSIVE findall_from(_, _, _)
findall_from(pattern, text, i) ==
    IF i > Len(text) THEN <<>>
    ELSE LET e == match_end(pattern, text, i)
         IN  IF e = 0 THEN findall_from(pattern, text, i + 1)
             ELSE <<SubSeq(text, i, e)>> \o findall_from(pattern, text, e + 1)

re_findall(pattern, text) == findall_from(pattern, text, 1)

\* convert_price with a null where no number is found.
convert_price_or_null(price) ==
    IF price = NaN THEN Return(NaN)
    ELSE LET found == re_findall(Decimal, price)
         IN  IF found = <<>> THEN Return(NaN) ELSE Return(found[1])

convert_price(price) ==
    IF price = NaN THEN Raise("TypeError")
    ELSE LET found == re_findall(Decimal, price)
         IN  IF found = <<>> THEN Raise("IndexError") ELSE Return(found[1])

convert_availability(availability) ==
    IF availability = NaN THEN Raise("TypeError")
    ELSE LET found == re_findall(Integer, availability)
         IN  IF found = <<>> THEN Raise("IndexError") ELSE Return(found[1])

RECURSIVE DigitsToNat(_)
DigitsToNat(ds) ==
    IF ds = <<>> THEN 0
    ELSE 10 * DigitsToNat(SubSeq(ds, 1, Len(ds) - 1)) + DigitValue(ds[Len(ds)])

\* A float64 is mantissa / 10^scale, without trailing zeros, or the null NaN.
FloatNaN == [mantissa |-> 0, scale |-> 0, nan |-> TRUE]
RECURSIVE Float(_, _)
Float(mantissa, scale) ==
    IF scale > 0 /\ mantissa % 10 = 0 THEN Float(mantissa \div 10, scale - 1)
    ELSE [mantissa |-> mantissa, scale |-> scale, nan |-> FALSE]

IsNumeral(text) == text # NaN /\ text # <<>> /\ \A i \in 1..Len(text) : IsDigit(text[i])

\* astype(float64) of one value of an object column.
astype_float64(x) ==
    IF x = NaN THEN Return(FloatNaN)
    ELSE IF IsNumeral(x) THEN Return(Float(DigitsToNat(x), 0))
    ELSE LET dots == {i \in 1..Len(x) : x[i] = "."}
             dot == CHOOSE i \in dots : TRUE
             whole == SubSeq(x, 1, dot - 1)
             frac == SubSeq(x, dot + 1, Len(x))
         IN  IF Cardinality(dots) = 1 /\ IsNumeral(whole \o frac)
             THEN Return(Float(DigitsToNat(whole \o frac), Len(frac)))
             ELSE Raise("ValueError")

\* astype(int64) of one value of an object column.
astype_int64(x) ==
    IF IsNumeral(x) THEN Return(DigitsToNat(x)) ELSE Raise("ValueError")

\* series.apply(f) and the per-column casts: the first failing row raises.
FirstRaise(outcomes) ==
    LET bad == {i \in 1..Len(outcomes) : outcomes[i].kind = "raise"}
    IN  IF bad = {} THEN Return([i \in 1..Len(outcomes) |-> outcomes[i].value])
        ELSE outcomes[CHOOSE i \in bad : \A j \in bad : i <= j]

clean_columns == <<"title", "upc", "product_type", "price_excl_tax", "price_incl_tax",
                   "tax", "availability", "number_of_reviews", "product_description">>
float64_columns == {"price_excl_tax", "price_incl_tax", "tax"}
int64_columns == {"availability", "number_of_reviews"}

\* df.astype(schema) of the renamed frame `cells` (a function from column
\* name to the sequence of the column's values), column by column.
astype(cells, n) ==
    LET cast(c) ==
            IF c \in float64_columns
            THEN FirstRaise([i \in 1..n |-> astype_float64(cells[c][i])])
            ELSE IF c \in int64_columns
            THEN FirstRaise([i \in 1..n |-> astype_int64(cells[c][i])])
            ELSE Return(cells[c])
        bad == {k \in 1..Len(clean_columns) : cast(clean_columns[k]).kind = "raise"}
    IN  IF bad # {}
        THEN cast(clean_columns[CHOOSE k \in bad : \A j \in bad : k <= j])
        ELSE Return([i \in 1..n |->
                        [c \in {clean_columns[k] : k \in 1..Len(clean_columns)} |->
                            cast(c).value[i]]])

\* clean_data(df)
clean_data(df) ==
    LET availability ==
            FirstRaise([i \in 1..Len(df) |-> convert_availability(df[i]["Availability"])])
        excl == FirstRaise([i \in 1..Len(df) |-> convert_price(df[i]["Price (excl. tax)"])])
        incl == FirstRaise([i \in 1..Len(df) |-> convert_price(df[i]["Price (incl. tax)"])])
        tax == FirstRaise([i \in 1..Len(df) |-> convert_price(df[i]["Tax"])])
        converted(c) ==
            IF c = "Availability" THEN availability.value
            ELSE IF c = "Price (excl. tax)" THEN excl.value
            ELSE IF c = "Price (incl. tax)" THEN incl.value
            ELSE IF c = "Tax" THEN tax.value
            ELSE [i \in 1..Len(df) |-> df[i][c]]
        renamed == [c \in {clean_columns[k] : k \in 1..Len(clean_columns)} |->
                       converted(raw_columns[CHOOSE k \in 1..Len(clean_columns) :
                                                 clean_columns[k] = c])]
    IN  IF availability.kind = "raise" THEN availability
        ELSE IF excl.kind = "raise" THEN excl
        ELSE IF incl.kind = "raise" THEN incl
        ELSE IF tax.kind = "raise" THEN tax
        ELSE astype(renamed, Len(df))

\* The outcomes of get_response for a listing URL and for an item URL.
listing_outcomes == get_response(ListingPages)
item_outcomes == get_response(ItemPages)

\* --------------------------------------------------------------- load_data
csv_header == clean_columns \o <<"category">>

HeaderLine == [kind |-> "header", cells |-> csv_header]
RowLines(df) == [i \in 1..Len(df) |-> [kind |-> "row", cells |-> df[i]]]

\* load_data that writes the header on every call.
load_data_header_always(df, no_db, csv, tbl, db_up) ==
    IF no_db
    THEN [kind |-> "return", exc |-> NoException,
          data_csv |-> Some((IF csv = None THEN <<>> ELSE csv[1])
                            \o <<HeaderLine>> \o RowLines(df)),
          table |-> tbl]
    ELSE IF db_up
         THEN [kind |-> "return", exc |-> NoException, data_csv |-> csv, table |-> tbl \o df]
         ELSE [kind |-> "raise", exc |-> "OperationalError", data_csv |-> csv, table |-> tbl]

\* load_data that empties the table when the insert fails.
load_data_rollback(df, no_db, csv, tbl, db_up) ==
    IF no_db
    THEN [kind |-> "return", exc |-> NoException,
          data_csv |-> Some((IF csv = None THEN <<HeaderLine>> ELSE csv[1]) \o RowLines(df)),
          table |-> tbl]
    ELSE IF db_up
         THEN [kind |-> "return", exc |-> NoException, data_csv |-> csv, table |-> tbl \o df]
         ELSE [kind |-> "raise", exc |-> "OperationalError", data_csv |-> csv, table |-> <<>>]

\* load_data(df, ...): no_db is whether "--no_db" is in sys.argv, csv the
\* content of data.csv (None: no such file), tbl the rows of the table,
\* db_up whether the database accepts the connection and the insert.
\* (to_csv's rendering of the values as text is not modelled: a line keeps
\* the row's values.)
load_data(df, no_db, csv, tbl, db_up) ==
    IF no_db
    THEN IF csv = None
         THEN [kind |-> "return", exc |-> NoException,
               data_csv |-> Some(<<HeaderLine>> \o RowLines(df)), table |-> tbl]
         ELSE [kind |-> "return", exc |-> NoException,
               data_csv |-> Some(csv[1] \o RowLines(df)), table |-> tbl]
    ELSE IF db_up
         THEN [kind |-> "return", exc |-> NoException, data_csv |-> csv, table |-> tbl \o df]
         ELSE [kind |-> "raise", exc |-> "OperationalError", data_csv |-> csv, table |-> tbl]

\* clean_df["category"] = label
stamp(df, label) ==
    [i \in 1..Len(df) |->
        [c \in DOMAIN df[i] \cup {"category"} |-> IF c = "category" THEN label ELSE df[i][c]]]

\* ------------------------------------------------------------------- state
VARIABLES
    pc,                \* where the program is
    exc,               \* the exception that ended it, if any
    failed_at,         \* the statement the exception escaped from
    attempt,           \* get_response: the loop variable
    requests,          \* history: the answers of this call's requests.get calls
    result,            \* what get_response returned
    links,             \* what fetch_titles returned
    parsed,            \* history: fetch_titles parsed the response body
    argv,              \* whether "--no_db" is in sys.argv
    science_links, poetry_links,
    science_data, poetry_data,
    science_df, poetry_df,
    clean_science_df, clean_poetry_df,
    data_csv,          \* the file data.csv: None, or Some(its lines)
    table,             \* the rows of book_db.BooksToScrape
    csv0,              \* history: data.csv before the first run
    loaded,            \* history: the frames of the completed file-mode loads
    runs               \* invocations of the program so far

fetch_vars == <<attempt, requests, result, links, parsed>>
main_vars == <<science_links, poetry_links, science_data, poetry_data,
               science_df, poetry_df, clean_science_df, clean_poetry_df>>
sink_vars == <<data_csv, table, csv0, loaded>>
vars == <<pc, exc, failed_at, fetch_vars, argv, main_vars, sink_vars, runs>>

FetchIdle ==
    /\ attempt = 1
    /\ requests = <<>>
    /\ result = <<None, None>>
    /\ links = <<>>
    /\ parsed = FALSE

MainIdle ==
    /\ science_links = <<>> /\ poetry_links = <<>>
    /\ science_data = <<>> /\ poetry_data = <<>>
    /\ science_df = <<>> /\ poetry_df = <<>>
    /\ clean_science_df = <<>> /\ clean_poetry_df = <<>>

NoSink ==
    /\ data_csv = None
    /\ table = <<>>
    /\ csv0 = None
    /\ loaded = <<>>

\* An exception nobody catches ends the process.
Abort(e) ==
    /\ pc' = "aborted"
    /\ exc' = e
    /\ failed_at' = pc

\* ------------------------------------------------------------- the driver
Init ==
    /\ pc = "fetch_science_titles"
    /\ exc = NoException
    /\ failed_at = ""
    /\ FetchIdle
    /\ argv \in BOOLEAN
    /\ MainIdle
    /\ NoSink
    /\ runs = 1

\* science_links = fetch_titles(science_url)
FetchScienceTitles ==
    /\ pc = "fetch_science_titles"
    /\ \E got \in listing_outcomes :
          LET r == fetch_titles(got)
          IN  \/ /\ r.kind = "return"
                 /\ science_links' = r.value
                 /\ pc' = "fetch_poetry_titles"
                 /\ UNCHANGED <<exc, failed_at>>
              \/ /\ r.kind = "raise"
                 /\ Abort(r.exc)
                 /\ UNCHANGED science_links
    /\ UNCHANGED <<fetch_vars, argv, poetry_links, science_data, poetry_data,
                   science_df, poetry_df, clean_science_df, clean_poetry_df,
                   sink_vars, runs>>

\* The statement that follows the two list comprehensions' loops.
AfterLinks(sl, sd, pl, pd) ==
    IF Len(sd) < Len(sl) THEN "fetch_science_info"
    ELSE IF Len(pd) < Len(pl) THEN "fetch_poetry_info"
    ELSE "concat_science"

\* poetry_links = fetch_titles(poetry_url)
FetchPoetryTitles ==
    /\ pc = "fetch_poetry_titles"
    /\ \E got \in listing_outcomes :
          LET r == fetch_titles(got)
          IN  \/ /\ r.kind = "return"
                 /\ poetry_links' = r.value
                 /\ pc' = AfterLinks(science_links, science_data, r.value, poetry_data)
                 /\ UNCHANGED <<exc, failed_at>>
              \/ /\ r.kind = "raise"
                 /\ Abort(r.exc)
                 /\ UNCHANGED poetry_links
    /\ UNCHANGED <<fetch_vars, argv, science_links, science_data, poetry_data,
                   science_df, poetry_df, clean_science_df, clean_poetry_df,
                   sink_vars, runs>>

\* One element of [fetch_title_info(link) for link in science_links]
FetchScienceInfo ==
    /\ pc = "fetch_science_info"
    /\ \E got \in item_outcomes :
          LET r == fetch_title_info(science_links[Len(science_data) + 1], got)
          IN  \/ /\ r.kind = "return"
                 /\ science_data' = Append(science_data, r.value)
                 /\ pc' = AfterLinks(science_links, science_data', poetry_links, poetry_data)
                 /\ UNCHANGED <<exc, failed_at>>
              \/ /\ r.kind = "raise"
                 /\ Abort(r.exc)
                 /\ UNCHANGED science_data
    /\ UNCHANGED <<fetch_vars, argv, science_links, poetry_links, poetry_data,
                   science_df, poetry_df, clean_science_df, clean_poetry_df,
                   sink_vars, runs>>

\* One element of [fetch_title_info(link) for link in poetry_links]
FetchPoetryInfo ==
    /\ pc = "fetch_poetry_info"
    /\ \E got \in item_outcomes :
          LET r == fetch_title_info(poetry_links[Len(poetry_data) + 1], got)
          IN  \/ /\ r.kind = "return"
                 /\ poetry_data' = Append(poetry_data, r.value)
                 /\ pc' = AfterLinks(science_links, science_data, poetry_links, poetry_data')
                 /\ UNCHANGED <<exc, failed_at>>
              \/ /\ r.kind = "raise"
                 /\ Abort(r.exc)
                 /\ UNCHANGED poetry_data
    /\ UNCHANGED <<fetch_vars, argv, science_links, poetry_links, science_data,
                   science_df, poetry_df, clean_science_df, clean_poetry_df,
                   sink_vars, runs>>

\* science_df = pd.concat(science_data)
ConcatScience ==
    /\ pc = "concat_science"
    /\ LET r == concat(science_data)
       IN  \/ /\ r.kind = "return"
              /\ science_df' = r.value
              /\ pc' = "concat_poetry"
              /\ UNCHANGED <<exc, failed_at>>
           \/ /\ r.kind = "raise"
              /\ Abort(r.exc)
              /\ UNCHANGED science_df
    /\ UNCHANGED <<fetch_vars, argv, science_links, poetry_links, science_data,
                   poetry_data, poetry_df, clean_science_df, clean_poetry_df,
                   sink_vars, runs>>

\* poetry_df = pd.concat(poetry_data)
ConcatPoetry ==
    /\ pc = "concat_poetry"
    /\ LET r == concat(poetry_data)
       IN  \/ /\ r.kind = "return"
              /\ poetry_df' = r.value
              /\ pc' = "clean_science"
              /\ UNCHANGED <<exc, failed_at>>
           \/ /\ r.kind = "raise"
              /\ Abort(r.exc)
              /\ UNCHANGED poetry_df
    /\ UNCHANGED <<fetch_vars, argv, science_links, poetry_links, science_data,
                   poetry_data, science_df, clean_science_df, clean_poetry_df,
                   sink_vars, runs>>

\* clean_science_df = clean_data(science_df)
CleanScience ==
    /\ pc = "clean_science"
    /\ LET r == clean_data(science_df)
       IN  \/ /\ r.kind = "return"
              /\ clean_science_df' = r.value
              /\ pc' = "clean_poetry"
              /\ UNCHANGED <<exc, failed_at>>
           \/ /\ r.kind = "raise"
              /\ Abort(r.exc)
              /\ UNCHANGED clean_science_df
    /\ UNCHANGED <<fetch_vars, argv, science_links, poetry_links, science_data,
                   poetry_data, science_df, poetry_df, clean_poetry_df,
                   sink_vars, runs>>

\* clean_poetry_df = clean_data(poetry_df)
CleanPoetry ==
    /\ pc = "clean_poetry"
    /\ LET r == clean_data(poetry_df)
       IN  \/ /\ r.kind = "return"
              /\ clean_poetry_df' = r.value
              /\ pc' = "stamp"
              /\ UNCHANGED <<exc, failed_at>>
           \/ /\ r.kind = "raise"
              /\ Abort(r.exc)
              /\ UNCHANGED clean_poetry_df
    /\ UNCHANGED <<fetch_vars, argv, science_links, poetry_links, science_data,
                   poetry_data, science_df, poetry_df, clean_science_df,
                   sink_vars, runs>>

\* clean_science_df["category"] = "Science"; clean_poetry_df["category"] = "Poetry"
Stamp ==
    /\ pc = "stamp"
    /\ clean_science_df' = stamp(clean_science_df, "Science")
    /\ clean_poetry_df' = stamp(clean_poetry_df, "Poetry")
    /\ pc' = "load_science"
    /\ UNCHANGED <<exc, failed_at, fetch_vars, argv, science_links, poetry_links,
                   science_data, poetry_data, science_df, poetry_df, sink_vars, runs>>

\* load_data(df=..., **db_params) called at `pc`, continuing at `next`.
Load(df, next) ==
    \E db_up \in BOOLEAN :
        LET r == load_data(df, argv, data_csv, table, db_up)
        IN  /\ data_csv' = r.data_csv
            /\ table' = r.table
            /\ \/ /\ r.kind = "return"
                  /\ loaded' = IF argv THEN Append(loaded, df) ELSE loaded
                  /\ pc' = next
                  /\ UNCHANGED <<exc, failed_at>>
               \/ /\ r.kind = "raise"
                  /\ Abort(r.exc)
                  /\ UNCHANGED loaded
            /\ UNCHANGED <<fetch_vars, argv, main_vars, csv0, runs>>

\* load_data(df=clean_science_df, **db_params)
LoadScience == pc = "load_science" /\ Load(clean_science_df, "load_poetry")

\* load_data(df=clean_poetry_df, **db_params)
LoadPoetry == pc = "load_poetry" /\ Load(clean_poetry_df, "exit")

Next ==
    \/ FetchScienceTitles
    \/ FetchPoetryTitles
    \/ FetchScienceInfo
    \/ FetchPoetryInfo
    \/ ConcatScience
    \/ ConcatPoetry
    \/ CleanScience
    \/ CleanPoetry
    \/ Stamp
    \/ LoadScience
    \/ LoadPoetry

Spec == Init /\ [][Next]_vars

\* ------------------------------------- fetch_titles(url), attempt by attempt
\* The program at fetch_titles' call of get_response, the loop about to start.
FetchInit ==
    /\ pc = "get_response"
    /\ exc = NoException
    /\ failed_at = ""
    /\ FetchIdle
    /\ argv \in BOOLEAN
    /\ MainIdle
    /\ NoSink
    /\ runs = 1

\* Request with a timeout that does not use up an attempt.
Request_timeout_free ==
    /\ pc = "get_response"
    /\ attempt <= n_attempts
    /\ \E answer \in Answers(ListingPages) :
          LET r == get_response_attempt(attempt, answer)
          IN  /\ requests' = Append(requests, answer)
              /\ \/ /\ r.kind = "continue"
                    /\ attempt' = IF answer.kind = ConnectTimeout THEN attempt ELSE attempt + 1
                    /\ UNCHANGED <<pc, result, exc, failed_at>>
                 \/ /\ r.kind = "return"
                    /\ result' = r.value
                    /\ pc' = "fetch_titles"
                    /\ UNCHANGED <<attempt, exc, failed_at>>
                 \/ /\ r.kind = "raise"
                    /\ Abort(r.exc)
                    /\ UNCHANGED <<attempt, result>>
    /\ UNCHANGED <<links, parsed, argv, main_vars, sink_vars, runs>>

\* One pass of the for loop of get_response.
Request ==
    /\ pc = "get_response"
    /\ attempt <= n_attempts
    /\ \E answer \in Answers(ListingPages) :
          LET r == get_response_attempt(attempt, answer)
          IN  /\ requests' = Append(requests, answer)
              /\ \/ /\ r.kind = "continue"
                    /\ attempt' = attempt + 1
                    /\ UNCHANGED <<pc, result, exc, failed_at>>
                 \/ /\ r.kind = "return"
                    /\ result' = r.value
                    /\ pc' = "fetch_titles"
                    /\ UNCHANGED <<attempt, exc, failed_at>>
                 \/ /\ r.kind = "raise"
                    /\ Abort(r.exc)
                    /\ UNCHANGED <<attempt, result>>
    /\ UNCHANGED <<links, parsed, argv, main_vars, sink_vars, runs>>

\* The loop ran out of attempts.
Exhausted ==
    /\ pc = "get_response"
    /\ attempt > n_attempts
    /\ result' = get_response_exhausted.value
    /\ pc' = "fetch_titles"
    /\ UNCHANGED <<attempt, requests, links, parsed, exc, failed_at,
                   argv, main_vars, sink_vars, runs>>

\* fetch_titles continues with what get_response returned.
FetchTitlesReturn ==
    /\ pc = "fetch_titles"
    /\ LET r == fetch_titles_body(result)
       IN  /\ parsed' = r.parsed
           /\ \/ /\ r.kind = "return"
                 /\ links' = r.value
                 /\ pc' = "returned"
                 /\ UNCHANGED <<exc, failed_at>>
              \/ /\ r.kind = "raise"
                 /\ Abort(r.exc)
                 /\ UNCHANGED links
    /\ UNCHANGED <<attempt, requests, result, argv, main_vars, sink_vars, runs>>

FetchNext == Request \/ Exhausted \/ FetchTitlesReturn

FetchSpec == FetchInit /\ [][FetchNext]_vars

\* The loop and the caller keep running: nothing in the program waits.
FairFetchSpec == FetchSpec /\ WF_vars(FetchNext)

\* --------------------------------------------- the driver from clean_data on
\* The item pages whose cells the cleaner is tried on: every mix of a price
\* with and without a decimal number in the three price-like cells, an
\* availability without a digit, a review count that is no numeral, and a
\* table that lacks the review-count cell.
CleanPages ==
    {Page(Description, Tds(e, i, t, InStock19, Reviews0)) :
        e \in {Pounds51_77, Pounds51}, i \in {Pounds51_77, Pounds51}, t \in {Pounds0_00, Pounds0}}
    \cup {Page(Description, Tds(Pounds51_77, Pounds51_77, Pounds0_00, OutOfStock, Reviews0)),
          Page(Description, Tds(Pounds51_77, Pounds51_77, Pounds0_00, InStock19, ReviewsNA)),
          Page(Description, SubSeq(GoodTds, 1, 6))}

Link(i) == path_join(base_url, after_last_parent(Href(BookAt(i))))
Ok(page) == [kind |-> "response", status_code |-> 200, text |-> page]

\* What fetch_title_info returns for the i-th link: the frame of the page
\* served with status 200, or the empty frame of any other status.
FramesAt(i, pages) ==
    {fetch_title_info_body(Link(i), <<Some(Ok(p)), Some(200)>>).value : p \in pages}
    \cup {<<>>}

\* The driver after n links' frames were fetched for a category.
Fetched(n, link_list, data, df, pages) ==
    /\ link_list = [i \in 1..n |-> Link(i)]
    /\ data \in {d \in [1..n -> UNION {FramesAt(i, pages) : i \in 1..n}] :
                    \A i \in 1..n : d[i] \in FramesAt(i, pages)}
    /\ df = Flatten(data)

\* The program at its first clean_data call, both categories fetched.
CleanInit ==
    /\ pc = "clean_science"
    /\ exc = NoException
    /\ failed_at = ""
    /\ FetchIdle
    /\ argv \in BOOLEAN
    /\ \E n \in 1..MaxBatch : Fetched(n, science_links, science_data, science_df, CleanPages)
    /\ Fetched(1, poetry_links, poetry_data, poetry_df, ItemPages \ {Page(None, GoodTds)})
    /\ clean_science_df = <<>> /\ clean_poetry_df = <<>>
    /\ NoSink
    /\ runs = 1

CleanNext == CleanScience \/ CleanPoetry

CleanSpec == CleanInit /\ [][CleanNext]_vars

\* ---------------------------------------------- the driver from load_data on
\* The locals of a category whose n links all served a good page (n = 0: one
\* link, which did not answer 200), up to clean_data's return.
good_batch ==
    [n \in 0..MaxBatch |->
        LET k == IF n = 0 THEN 1 ELSE n
            data == [i \in 1..k |->
                        IF n = 0 THEN <<>>
                        ELSE fetch_title_info_body(
                                 Link(i), <<Some(Ok(Page(Description, GoodTds))), Some(200)>>).value]
        IN  [links |-> [i \in 1..k |-> Link(i)],
             data |-> data,
             df |-> Flatten(data),
             clean |-> clean_data(Flatten(data)).value]]

\* Such a category, cleaned and stamped.
Cleaned(n, label, link_list, data, df, clean_df) ==
    /\ link_list = good_batch[n].links
    /\ data = good_batch[n].data
    /\ df = good_batch[n].df
    /\ clean_df = stamp(good_batch[n].clean, label)

\* The program at its first load_data call; data.csv is missing, or was left
\* empty by someone else.
LoadInit ==
    /\ pc = "load_science"
    /\ exc = NoException
    /\ failed_at = ""
    /\ FetchIdle
    /\ argv \in BOOLEAN
    /\ \E n \in 0..MaxBatch :
          Cleaned(n, "Science", science_links, science_data, science_df, clean_science_df)
    /\ \E m \in 0..MaxBatch :
          Cleaned(m, "Poetry", poetry_links, poetry_data, poetry_df, clean_poetry_df)
    /\ data_csv \in {None, Some(<<>>)}
    /\ csv0 = data_csv
    /\ table = <<>>
    /\ loaded = <<>>
    /\ runs = 1

\* The program is run again when the last run is over, and gets to its first
\* load_data call: data.csv and the table are what the earlier runs left.
RunAgain ==
    /\ pc \in {"exit", "aborted"}
    /\ runs < MaxRuns
    /\ runs' = runs + 1
    /\ pc' = "load_science"
    /\ exc' = NoException
    /\ failed_at' = ""
    /\ argv' \in BOOLEAN
    /\ \E n \in 0..MaxBatch :
          Cleaned(n, "Science", science_links', science_data', science_df', clean_science_df')
    /\ \E m \in 0..MaxBatch :
          Cleaned(m, "Poetry", poetry_links', poetry_data', poetry_df', clean_poetry_df')
    /\ UNCHANGED <<fetch_vars, sink_vars>>

LoadNext == LoadScience \/ LoadPoetry \/ RunAgain

LoadSpec == LoadInit /\ [][LoadNext]_vars

\* ------------------------------------------------------------------ claims
\* get_response has handed a value back to fetch_titles.
GetResponseReturned ==
    \/ pc \in {"fetch_titles", "returned"}
    \/ pc = "aborted" /\ failed_at = "fetch_titles"

\* The call's requests so far were all answered with a status in S.
AllAnswered(S) ==
    /\ requests # <<>>
    /\ \A i \in 1..Len(requests) :
          requests[i].kind = "response" /\ requests[i].status_code \in S

\* C1 (as claimed): when every attempt is answered 429, get_response makes
\* n_attempts requests and returns the last response with its status 429; it
\* neither returns (None, None) nor raises.
C1_Always429ReturnsLastResponse ==
    (pc # "get_response" /\ AllAnswered({429}))
        => /\ GetResponseReturned
           /\ Len(requests) = n_attempts
           /\ result = <<Some(requests[Len(requests)]), Some(429)>>

\* C2: when every attempt is answered with a status that is neither 200 nor
\* 429, get_response ends only after exactly n_attempts requests, and returns
\* the response of the last attempt together with that response's status.
C2_OtherStatusUsesAllAttempts ==
    (pc # "get_response" /\ AllAnswered(ErrorStatuses))
        => /\ GetResponseReturned
           /\ Len(requests) = n_attempts
           /\ result = <<Some(requests[n_attempts]), Some(requests[n_attempts].status_code)>>

C2_Witness ==
    /\ pc = "returned"
    /\ AllAnswered(ErrorStatuses)
    /\ requests[1].status_code = 404
    /\ result[2] = Some(503)

\* C3: an attempt answered 200 is the call's last request: get_response
\* returns that response and status 200 at once, so a URL that answers 200
\* the first time costs exactly one request.
C3_First200Returns ==
    \A i \in 1..Len(requests) :
        (requests[i].kind = "response" /\ requests[i].status_code = 200)
            => /\ i = Len(requests)
               /\ GetResponseReturned
               /\ result = <<Some(requests[i]), Some(200)>>

C3_Witness ==
    /\ GetResponseReturned
    /\ Len(requests) = 1
    /\ requests[1].status_code = 200
    /\ result = <<Some(requests[1]), Some(200)>>

\* C5: when get_response returns anything but status 200 (a response with
\* another status, or (None, None)), fetch_titles returns the empty list,
\* without parsing the body and without raising.
C5_Non200GivesNoLinks ==
    (GetResponseReturned /\ pc # "fetch_titles" /\ result[2] # Some(200))
        => /\ pc = "returned"
           /\ links = <<>>
           /\ ~parsed
           /\ exc = NoException

C5_Witness ==
    /\ pc = "returned"
    /\ result[1] # None
    /\ result[2] = Some(404)
    /\ links = <<>>

\* C6: whatever the attempts are answered, each request uses up one attempt
\* of the one budget (the loop variable is one more than the requests made),
\* no more than n_attempts requests are made, and the call ends.
C6_AtMostFiveRequestsThenEnds ==
    /\ [](/\ Len(requests) <= n_attempts
          /\ pc = "get_response" => attempt = Len(requests) + 1)
    /\ <>(pc # "get_response")

C6_Witness ==
    /\ pc # "get_response"
    /\ Len(requests) = n_attempts
    /\ \E i \in 1..Len(requests) : requests[i].kind = ConnectTimeout
    /\ \E i \in 1..Len(requests) : requests[i].status_code \in ErrorStatuses
    /\ requests[n_attempts].status_code = 429

\* C8: get_response returns (None, None) only after n_attempts requests the
\* last of which timed out or was answered 429, never when the last attempt
\* got a response with another status; responses of earlier attempts do not
\* prevent it.
C8_NoneOnlyAfterLastAttemptFailed ==
    (GetResponseReturned /\ result = <<None, None>>)
        => /\ Len(requests) = n_attempts
           /\ \/ requests[n_attempts].kind = ConnectTimeout
              \/ requests[n_attempts].status_code = 429

C8_Witness ==
    /\ GetResponseReturned
    /\ result = <<None, None>>
    /\ Len(requests) = n_attempts
    /\ requests[1].kind = "response"

\* A raw record the claim calls unclean: a price-like field without a decimal
\* number, or an availability without a digit.
NoNumber(row) ==
    \/ \E c \in {"Price (excl. tax)", "Price (incl. tax)", "Tax"} :
          re_findall(Decimal, row[c]) = <<>>
    \/ re_findall(Integer, row["Availability"]) = <<>>

IsFloat64(v) == v.nan = FALSE /\ v.mantissa \in Nat /\ v.scale \in Nat
IsInt64(v) == v \in Int

\* clean_data(df), called at statement `at` and followed by the statements
\* `after`, returned clean_df or raised.
CleanFailFast(at, after, df, clean_df) ==
    LET returned == pc \in after \/ (pc = "aborted" /\ failed_at \in after)
    IN  /\ (failed_at = at) => clean_df = <<>>
        /\ (\E i \in 1..Len(df) : NoNumber(df[i])) => ~returned
        /\ returned =>
              /\ Len(clean_df) = Len(df)
              /\ \A i \in 1..Len(clean_df) :
                    /\ IsFloat64(clean_df[i]["price_excl_tax"])
                    /\ IsFloat64(clean_df[i]["price_incl_tax"])
                    /\ IsFloat64(clean_df[i]["tax"])
                    /\ IsInt64(clean_df[i]["availability"])
                    /\ IsInt64(clean_df[i]["number_of_reviews"])

\* C7: clean_data fails fast over the batch: one record with a price-like
\* field without a decimal number or an availability without a digit makes
\* the call raise and leave no cleaned batch; a batch it returns has, in every
\* record, numbers (no null) for the three prices, availability and reviews.
C7_CleanIsFailFast ==
    /\ CleanFailFast("clean_science",
                     {"clean_poetry", "stamp", "load_science", "load_poetry", "exit"},
                     science_df, clean_science_df)
    /\ CleanFailFast("clean_poetry", {"stamp", "load_science", "load_poetry", "exit"},
                     poetry_df, clean_poetry_df)

C7_Witness ==
    /\ failed_at = "clean_science"
    /\ Len(science_df) = 2
    /\ ~NoNumber(science_df[1])
    /\ NoNumber(science_df[2])
    /\ clean_science_df = <<>>

\* The lines of data.csv are one header and then `rows`.
HeaderThen(rows) ==
    /\ data_csv # None
    /\ Len(data_csv[1]) = 1 + Len(rows)
    /\ data_csv[1][1].kind = "header"
    /\ data_csv[1][1].cells = csv_header
    /\ \A i \in 1..Len(rows) :
          data_csv[1][i + 1].kind = "row" /\ data_csv[1][i + 1].cells = rows[i]

\* C4: starting without data.csv, after any sequence of file-mode loads the
\* file is one header line followed by the rows of all loaded batches, in the
\* order of the calls (N rows after a first load of N, N+M after a second of M).
C4_OneHeaderThenAllRows ==
    csv0 = None =>
        IF loaded = <<>> THEN data_csv = None ELSE HeaderThen(Flatten(loaded))

C4_Witness ==
    /\ csv0 = None
    /\ Len(loaded) = 2
    /\ Len(loaded[1]) = 2
    /\ Len(loaded[2]) = 1
    /\ HeaderThen(loaded[1] \o loaded[2])

SinkUntouched == data_csv = None /\ table = <<>> /\ loaded = <<>>

\* C9: nothing is loaded before both categories are fetched, concatenated and
\* cleaned, so a clean_data call that raises leaves the sink without a record
\* of either category; when the Science load succeeded and the Poetry load
\* raises, the Science records stay in the sink.
C9_CleanBeforeLoadNoRollback ==
    /\ (pc \notin {"load_poetry", "exit", "aborted"}) => SinkUntouched
    /\ (pc = "aborted" /\ failed_at \notin {"load_science", "load_poetry"}) => SinkUntouched
    /\ (pc = "aborted" /\ failed_at = "load_poetry") =>
          IF argv THEN HeaderThen(clean_science_df)
          ELSE table = clean_science_df

C9_Witness ==
    /\ pc = "aborted"
    /\ failed_at = "load_poetry"
    /\ Len(clean_science_df) >= 1
    /\ table = clean_science_df

\* Both fetch_titles calls of the driver have returned.
TitlesFetched ==
    /\ pc \notin {"fetch_science_titles", "fetch_poetry_titles"}
    /\ failed_at \notin {"fetch_science_titles", "fetch_poetry_titles"}

\* C10: a category whose link list is empty never gets past pd.concat, which
\* raises on its empty list of frames: the run ends before any load_data call
\* and nothing is written for the other category either.
C10_EmptyCategoryAbortsBeforeLoad ==
    (TitlesFetched /\ (science_links = <<>> \/ poetry_links = <<>>))
        => /\ SinkUntouched
           /\ pc \in {"fetch_science_info", "fetch_poetry_info", "concat_science",
                      "concat_poetry", "aborted"}
           /\ (pc = "aborted") =>
                 \/ failed_at \in {"fetch_science_info", "fetch_poetry_info"}
                 \/ /\ failed_at = IF science_links = <<>> THEN "concat_science"
                                   ELSE "concat_poetry"
                    /\ exc = "ValueError"

C10_Witness ==
    /\ pc = "aborted"
    /\ failed_at = "concat_poetry"
    /\ exc = "ValueError"
    /\ poetry_links = <<>>
    /\ Len(science_df) >= 1
    /\ SinkUntouched

====
